---- MODULE Spec2Model ----
(***************************************************************************)
(* KBO schedule cache and realtime fetch cache                             *)
(* (kbo-mcp/src/kbo: realtime_playwright.py, service.py, db.py).           *)
(*                                                                         *)
(* Three state machines share this module:                                 *)
(*   SpecFetch  the realtime fetch cache: _scrape_review / _scrape_lineup  *)
(*              coroutines over _CACHE and _LAST_CALL, with the            *)
(*              monotonic clock and the Detail Source Fetcher (the         *)
(*              playwright page load) as the environment;                  *)
(*   SpecStore  the schedule cache manager: ensure_month_cached_async      *)
(*              coroutines over the sqlite tables schedules and            *)
(*              month_cache, with the UTC clock, the Source Collector      *)
(*              (scrape_month_schedule) and process crashes as the         *)
(*              environment;                                               *)
(*   SpecFacade the facade build_realtime_payload_playwright: schedule     *)
(*              lookup, _select_game, the two fetches and the assembly of  *)
(*              the response (SpecSelect runs _select_game alone,          *)
(*              SpecMetrics _derive_metrics alone).                        *)
(* SpecSchedule runs get_schedule_async over the store, SpecFetchLive the  *)
(* fetch coroutines under fairness, SpecFacadeConc two facade callers.     *)
(* Python's None is the empty tuple <<>>, a present optional value x is    *)
(* <<x>>; a dict is a function whose DOMAIN is its key set.                *)
(***************************************************************************)
EXTENDS Integers, Sequences, FiniteSets, TLC

VARIABLES
    mono,         \* time.monotonic(), in ticks of half a second
    _CACHE,       \* realtime_playwright._CACHE: url -> [t, data]
    _LAST_CALL,   \* realtime_playwright._LAST_CALL: kind -> instant
    task,         \* the fetch coroutines, one record per caller
    callers,      \* the callers that issue fetch calls in this run
    ncalls,       \* history: fetch calls started so far
    elapsed,      \* history: the half-second steps and long pauses so far
    lastDone,     \* history: key -> outcome and instant of the last return
    lastDispatch, \* history: kind -> the last page load: instant, caller, call, attempt
    utc,          \* datetime.utcnow(), in ticks of six hours
    schedules,    \* table schedules: its rows in the order of their insertion
    month_cache,  \* table month_cache: bucket -> fetched_at
    etask,        \* the ensure_month_cached_async coroutines, one record per caller
    ecallers,     \* the callers that issue ensure calls in this run
    spent,        \* history: ensure calls, six-hour steps and crashes so far
    lastEnsure,   \* history: bucket -> the last ensure call for it
    stamped,      \* history: bucket -> the collection that wrote its stamp
    conn,         \* the sqlite connection of each caller's last ensure call
    sel,          \* a call of _select_game: its arguments and its result
    site,         \* the tables that the detail pages of the source show
    ftask,        \* the build_realtime_payload_playwright coroutines, one per caller
    got,          \* the get_schedule_async coroutines, one record per caller
    dm            \* a call of _derive_metrics: its argument and its outcome

fetchVars == <<mono, _CACHE, _LAST_CALL, task, callers, ncalls, elapsed, lastDone, lastDispatch>>

storeVars == <<utc, schedules, month_cache, etask, ecallers, spent, lastEnsure, stamped, conn>>

facadeVars == <<sel, site, ftask, got, dm>>

vars == <<fetchVars, storeVars, facadeVars>>

None == <<>>
Some(x) == <<x>>

\* ------------------------------------------------------------------ bounds

\* Time passes in at most MaxTicks half-second steps and MaxJumps long
\* pauses when one caller runs its calls in sequence, and in at most
\* MaxConcTicks half-second steps when several callers run concurrently.
MaxTicks == 8
MaxJumps == 1
MaxConcTicks == 4
\* The Detail Source Fetcher answers an attempt within MaxLoad ticks.
MaxLoad == 1
\* At most MaxCalls fetch calls are started in one behaviour.
MaxCalls == 3

\* Fetch calls in a run in which every call runs to its end.
MaxLiveCalls == 2

\* Ensure calls in a run.
MaxEnsures == 3

\* Six-hour steps of the UTC clock in a run.
MaxUtcTicks == 3

\* Six-hour steps in a run with two callers of ensure.
MaxConcUtcTicks == 2

\* Records in the list of one date.
MaxGames == 3

\* Calls of the facade by one caller.
MaxQueries == 1

\* Cells in a row and rows in a table of the linescore.
MaxCells == 2
MaxRows == 2

\* Process crashes in a run.
MaxCrashes == 1

\* --------------------------------------------------------------- constants

\* One tick is the initial backoff, 0.5 s: two ticks per second.
TicksPerSecond == 2
_TTL_SECONDS == 20
_MIN_INTERVAL == 1
\* backoff = 0.5, in ticks
InitialBackoff == 1
\* for _ in range(3)
Attempts == 3

TTL == _TTL_SECONDS * TicksPerSecond
MinInterval == _MIN_INTERVAL * TicksPerSecond

\* Concurrent callers of the fetch coroutines.
Tasks == {"a", "b"}
Kinds == {"review", "preview"}

\* A detail-page reference (gamecenter_url): the page and the value of its
\* "section=" query parameter, "" when the text has none.
Refs == {[page |-> 1, section |-> ""], [page |-> 1, section |-> "REVIEW"]}

\* What one page load yields: the tables of the page that was opened, as the
\* source served them to that load (v, the number of the call that made it,
\* tells two loads apart).
Payload(url, kind, v) == [url |-> url, kind |-> kind, v |-> v, tables |-> site[kind]]

\* What the fetcher can raise: playwright's Error and TimeoutError, both
\* subclasses of Exception, with the text str(exc) gives (an Error may
\* carry an empty message).
Exceptions ==
    {[cls |-> "Error", text |-> ""],
     [cls |-> "TimeoutError", text |-> "Timeout 5000ms exceeded"]}

\* ------------------------------------------------------- pure operators

\* dict[key] = value
Put(d, k, v) == [x \in DOMAIN d \cup {k} |-> IF x = k THEN v ELSE d[x]]

FetchResult(data, stale, error) == [data |-> data, stale |-> stale, error |-> error]

\* _scrape_review lines 105-110: the url that is opened and used as cache key.
ReviewUrl(url) ==
    IF url.section = "" THEN [url EXCEPT !.section = "REVIEW"] ELSE url

\* _scrape_lineup lines 175-180.
LineupUrl(url) ==
    IF url.section = "" THEN [url EXCEPT !.section = "PREVIEW"] ELSE url

KeyOf(url, kind) == IF kind = "review" THEN ReviewUrl(url) ELSE LineupUrl(url)

\* CacheHit with the age test the wrong way round.
CacheHitInverted(cache, key, now) ==
    /\ key \in DOMAIN cache
    /\ now - cache[key].t > TTL

\* lines 112-114 / 182-184: the entry exists and is younger than the TTL.
CacheHit(cache, key, now) ==
    /\ key \in DOMAIN cache
    /\ now - cache[key].t < TTL

\* _rate_limit lines 34-38: how long to sleep; <= 0 means no sleep.
RateLimitWait(last_call, kind, now) ==
    IF kind \in DOMAIN last_call
    THEN MinInterval - (now - last_call[kind])
    ELSE 0

\* An except clause that names TimeoutError only.
ExceptTimeoutError(exc) == exc.cls = "TimeoutError"

\* except Exception (lines 150, 214): is the raised class caught?
ExceptException(exc) == exc.cls \in {"Error", "TimeoutError"}

\* str(exc), line 151
Str(exc) == exc.text

\* ExhaustedResult that does not look at the cache.
ExhaustedResultNoFallback(cache, key, last_err) ==
    FetchResult(None, TRUE,
                IF last_err = None \/ last_err = Some("")
                THEN Some("scrape_failed") ELSE last_err)

\* ExhaustedResult that drops the error when it falls back on the cache.
ExhaustedResultNoError(cache, key, last_err) ==
    IF key \in DOMAIN cache
    THEN FetchResult(Some(cache[key].data), TRUE, None)
    ELSE FetchResult(None, TRUE,
                     IF last_err = None \/ last_err = Some("")
                     THEN Some("scrape_failed") ELSE last_err)

\* ExhaustedResult without the `or "scrape_failed"` of line 158.
ExhaustedResultNoDefault(cache, key, last_err) ==
    IF key \in DOMAIN cache
    THEN FetchResult(Some(cache[key].data), TRUE, last_err)
    ELSE FetchResult(None, TRUE, last_err)

\* lines 155-158 / 219-222: the outcome once the loop is exhausted.
ExhaustedResult(cache, key, last_err) ==
    IF key \in DOMAIN cache
    THEN FetchResult(Some(cache[key].data), TRUE, last_err)
    ELSE FetchResult(None, TRUE,
                     IF last_err = None \/ last_err = Some("")
                     THEN Some("scrape_failed") ELSE last_err)

\* --------------------------------------------------------------- state

\* line 153 / 217: backoff *= 2.
NextBackoff(backoff) == 2 * backoff

\* ndisp and exc are history: the page loads the current call has started,
\* and the text of the exception its last failed attempt raised.
\* wake is the instant a sleep ends or, during an attempt, the instant by
\* which the fetcher has answered.
IdleTask ==
    [pc |-> "idle", kind |-> None, key |-> None, call |-> 0,
     i |-> 0, backoff |-> 0, last_err |-> None, wake |-> 0,
     result |-> None, ndisp |-> 0, exc |-> None]

InitFetch ==
    /\ mono = 0
    /\ _CACHE = <<>>
    /\ _LAST_CALL = <<>>
    /\ task = [t \in Tasks |-> IdleTask]
    /\ ncalls = 0
    /\ elapsed = [ticks |-> 0, jumps |-> 0]
    /\ lastDone = <<>>
    /\ lastDispatch = <<>>

InFlight(t) == task[t].pc \in {"rate_limit", "attempt", "backoff"}

\* History: the payload of the last successful page load for the key that
\* has finished.
LastWrote(key) == IF key \in DOMAIN lastDone THEN lastDone[key].wrote ELSE None

\* ------------------------------------------------------------- actions

\* A caller enters _scrape_review / _scrape_lineup and runs to its first
\* suspension point: a cache hit returns at once; a miss goes through
\* _rate_limit, which either sleeps or stamps _LAST_CALL and lets the first
\* attempt start its page load.
FetchStart(t, url, kind) ==
    /\ t \in callers
    /\ ~InFlight(t)
    /\ ncalls < MaxCalls
    /\ ncalls' = ncalls + 1
    /\ LET key == KeyOf(url, kind)
           wait == RateLimitWait(_LAST_CALL, kind, mono)
           base == [IdleTask EXCEPT !.kind = Some(kind), !.key = Some(key),
                                    !.call = ncalls + 1,
                                    !.backoff = InitialBackoff]
       IN IF CacheHit(_CACHE, key, mono)
          THEN LET res == FetchResult(Some(_CACHE[key].data), FALSE, None)
               IN /\ task' = [task EXCEPT ![t] =
                                 [base EXCEPT !.pc = "done", !.result = Some(res),
                                              !.backoff = 0]]
                  /\ lastDone' = Put(lastDone, key, [at |-> mono, result |-> res,
                                                     wrote |-> LastWrote(key)])
                  /\ UNCHANGED <<_CACHE, _LAST_CALL, lastDispatch>>
          ELSE IF wait > 0
          THEN /\ task' = [task EXCEPT ![t] =
                              [base EXCEPT !.pc = "rate_limit", !.wake = mono + wait]]
               /\ UNCHANGED <<_CACHE, _LAST_CALL, lastDone, lastDispatch>>
          ELSE /\ task' = [task EXCEPT ![t] =
                              [base EXCEPT !.pc = "attempt", !.ndisp = 1,
                                           !.wake = mono + MaxLoad]]
               /\ _LAST_CALL' = Put(_LAST_CALL, kind, mono)
               /\ lastDispatch' = Put(lastDispatch, kind,
                                      [at |-> mono, by |-> t, call |-> ncalls + 1, n |-> 1])
               /\ UNCHANGED <<_CACHE, lastDone>>
    /\ UNCHANGED <<mono, callers, elapsed>>

\* asyncio.sleep(wait) of _rate_limit is over: line 40 stamps _LAST_CALL and
\* the first attempt starts its page load.
RateLimitWake(t) ==
    /\ task[t].pc = "rate_limit"
    /\ mono = task[t].wake
    /\ task' = [task EXCEPT ![t].pc = "attempt", ![t].ndisp = 1,
                             ![t].wake = mono + MaxLoad]
    /\ _LAST_CALL' = Put(_LAST_CALL, task[t].kind[1], mono)
    /\ lastDispatch' = Put(lastDispatch, task[t].kind[1],
                           [at |-> mono, by |-> t, call |-> task[t].call, n |-> 1])
    /\ UNCHANGED <<mono, _CACHE, callers, ncalls, elapsed, lastDone>>

\* A success that leaves a fresh entry of the key in place.
AttemptSuccess_FirstWriterWins(t) ==
    /\ task[t].pc = "attempt"
    /\ LET key == task[t].key[1]
           data == Payload(key, task[t].kind[1], task[t].call)
           res == FetchResult(Some(data), FALSE, None)
       IN /\ _CACHE' = IF CacheHit(_CACHE, key, mono) THEN _CACHE
                        ELSE Put(_CACHE, key, [t |-> mono, data |-> data])
          /\ task' = [task EXCEPT ![t].pc = "done", ![t].result = Some(res),
                                   ![t].wake = 0, ![t].backoff = 0]
          /\ lastDone' = Put(lastDone, key, [at |-> mono, result |-> res, wrote |-> Some(data)])
    /\ UNCHANGED <<mono, _LAST_CALL, callers, ncalls, elapsed, lastDispatch>>

\* A success that stores the entry under the instant of its dispatch.
AttemptSuccess_EarlyInstant(t) ==
    /\ task[t].pc = "attempt"
    /\ LET key == task[t].key[1]
           data == Payload(key, task[t].kind[1], task[t].call)
           res == FetchResult(Some(data), FALSE, None)
       IN /\ _CACHE' = Put(_CACHE, key, [t |-> task[t].wake - MaxLoad, data |-> data])
          /\ task' = [task EXCEPT ![t].pc = "done", ![t].result = Some(res),
                                   ![t].wake = 0, ![t].backoff = 0]
          /\ lastDone' = Put(lastDone, key, [at |-> mono, result |-> res, wrote |-> Some(data)])
    /\ UNCHANGED <<mono, _LAST_CALL, callers, ncalls, elapsed, lastDispatch>>

\* The page load of the running attempt succeeds: lines 147-149.
AttemptSuccess(t) ==
    /\ task[t].pc = "attempt"
    /\ LET key == task[t].key[1]
           data == Payload(key, task[t].kind[1], task[t].call)
           res == FetchResult(Some(data), FALSE, None)
       IN /\ _CACHE' = Put(_CACHE, key, [t |-> mono, data |-> data])
          /\ task' = [task EXCEPT ![t].pc = "done", ![t].result = Some(res),
                                   ![t].wake = 0, ![t].backoff = 0]
          /\ lastDone' = Put(lastDone, key, [at |-> mono, result |-> res, wrote |-> Some(data)])
    /\ UNCHANGED <<mono, _LAST_CALL, callers, ncalls, elapsed, lastDispatch>>

\* The running attempt raises: lines 150-153. An exception the except
\* clause does not catch leaves the coroutine.
AttemptFail(t, exc) ==
    /\ task[t].pc = "attempt"
    /\ IF ExceptException(exc)
       THEN task' = [task EXCEPT ![t].pc = "backoff",
                                 ![t].last_err = Some(Str(exc)),
                                 ![t].wake = mono + task[t].backoff,
                                 ![t].backoff = NextBackoff(@),
                                 ![t].i = @ + 1,
                                 ![t].exc = Some(exc.text)]
       ELSE task' = [task EXCEPT ![t].pc = "raised",
                                 ![t].exc = Some(exc.text),
                                 ![t].wake = 0, ![t].backoff = 0]
    /\ UNCHANGED <<mono, _CACHE, _LAST_CALL, callers, ncalls, elapsed, lastDone, lastDispatch>>

\* A loop that retries without a limit.
BackoffWake_NoLimit(t) ==
    /\ task[t].pc = "backoff"
    /\ mono = task[t].wake
    /\ task' = [task EXCEPT ![t].pc = "attempt", ![t].ndisp = @ + 1,
                             ![t].wake = mono + MaxLoad]
    /\ lastDispatch' = Put(lastDispatch, task[t].kind[1],
                           [at |-> mono, by |-> t, call |-> task[t].call,
                            n |-> task[t].ndisp + 1])
    /\ UNCHANGED <<mono, _CACHE, _LAST_CALL, callers, ncalls, elapsed, lastDone>>

\* asyncio.sleep(backoff) is over: the loop starts its next attempt, or,
\* after the last one, the call returns by lines 155-158.
BackoffWake(t) ==
    /\ task[t].pc = "backoff"
    /\ mono = task[t].wake
    /\ IF task[t].i < Attempts
       THEN /\ task' = [task EXCEPT ![t].pc = "attempt", ![t].ndisp = @ + 1,
                                     ![t].wake = mono + MaxLoad]
            /\ lastDispatch' = Put(lastDispatch, task[t].kind[1],
                                   [at |-> mono, by |-> t, call |-> task[t].call,
                                    n |-> task[t].ndisp + 1])
            /\ UNCHANGED lastDone
       ELSE LET res == ExhaustedResult(_CACHE, task[t].key[1], task[t].last_err)
            IN /\ task' = [task EXCEPT ![t].pc = "done", ![t].result = Some(res),
                                        ![t].wake = 0, ![t].backoff = 0]
               /\ lastDone' = Put(lastDone, task[t].key[1],
                                  [at |-> mono, result |-> res,
                                   wrote |-> LastWrote(task[t].key[1])])
               /\ UNCHANGED lastDispatch
    /\ UNCHANGED <<mono, _CACHE, _LAST_CALL, callers, ncalls, elapsed>>

\* Time passes by half a second. The event loop resumes a sleeper at the
\* tick its delay ends, and the fetcher answers within MaxLoad ticks: time
\* does not pass beyond either.
Tick ==
    /\ \A t \in Tasks : InFlight(t) => mono < task[t].wake
    /\ elapsed.ticks < (IF Cardinality(callers) = 1 THEN MaxTicks ELSE MaxConcTicks)
    /\ mono' = mono + 1
    /\ elapsed' = [elapsed EXCEPT !.ticks = @ + 1]
    /\ UNCHANGED <<_CACHE, _LAST_CALL, task, callers, ncalls, lastDone, lastDispatch>>

\* Half a second passes while a call waits for its page load or sleeps.
Wait ==
    /\ \E t \in Tasks : InFlight(t)
    /\ \A t \in Tasks : InFlight(t) => mono < task[t].wake
    /\ mono' = mono + 1
    /\ UNCHANGED <<_CACHE, _LAST_CALL, task, callers, ncalls, elapsed, lastDone, lastDispatch>>

\* A long pause between calls, half a second short of the cache TTL.
Jump ==
    /\ \A t \in Tasks : ~InFlight(t)
    /\ elapsed.jumps < MaxJumps
    /\ mono' = mono + (TTL - 1)
    /\ elapsed' = [elapsed EXCEPT !.jumps = @ + 1]
    /\ UNCHANGED <<_CACHE, _LAST_CALL, task, callers, ncalls, lastDone, lastDispatch>>

\* ------------------------------------------------ schedule cache manager

\* The buckets (year, month, series) that callers ask for.
Buckets ==
    { [year |-> 2025, month |-> 5, series |-> "0,9,6"],
      [year |-> 2025, month |-> 6, series |-> "0,9,6"] }

\* The UTC clock advances in steps of six hours.
TickMinutes == 60 * 6

TicksPerDay == (24 * 60) \div TickMinutes

\* db.is_month_cache_fresh: ttl_minutes = 60 * 12.
ttl_minutes == 60 * 12

\* datetime.isoformat of the instant now: the text "DDTHH" of the day and
\* the hour, kept as the pair of its two numbers.
IsoFormat(now) == <<(now \div TicksPerDay) + 1, ((now % TicksPerDay) * TickMinutes) \div 60>>

\* datetime.fromisoformat: the instant that the text denotes.
FromIsoFormat(text) == (text[1] - 1) * TicksPerDay + (text[2] * 60) \div TickMinutes

\* The rows of the schedule table as the site can show them for one month:
\* a game with its start time and a game-center link, one with a time and
\* no link, one with a link and no time yet, and one with neither.  The
\* score of the first appears once the game is over.
SiteRows ==
    { [day |-> 1, time |-> Some("18:30"), away |-> "LG", home |-> "KT", away_score |-> None, game_id |-> Some("G1")],
      [day |-> 1, time |-> Some("18:30"), away |-> "LG", home |-> "KT", away_score |-> Some(5), game_id |-> Some("G1")],
      [day |-> 2, time |-> Some("17:00"), away |-> "NC", home |-> "SSG", away_score |-> None, game_id |-> None],
      [day |-> 3, time |-> None, away |-> "KIA", home |-> "LOTTE", away_score |-> None, game_id |-> Some("G3")],
      [day |-> 4, time |-> None, away |-> "LG", home |-> "KT", away_score |-> None, game_id |-> None] }

\* What one collection can read from the site: no row, one row, or the
\* finished first game followed by the game without time and link.
Pages ==
    {<<>>} \cup { <<r>> : r \in SiteRows }
           \cup { << CHOOSE r \in SiteRows : r.away_score # None,
                     CHOOSE r \in SiteRows : r.time = None /\ r.game_id = None >> }

\* db.GameRow, with the fields that the unique index and the readers use.
GameRow(b, r, fetched_at) ==
    [game_date |-> <<b.year, b.month, r.day>>, time |-> r.time,
     away |-> r.away, home |-> r.home, away_score |-> r.away_score,
     game_id |-> r.game_id, fetched_at |-> fetched_at]

\* scraper.scrape_month_schedule: the GameRows of the page, all with the
\* fetched_at taken when the collection started.
scrape_month_schedule(b, page, started) ==
    [k \in DOMAIN page |-> GameRow(b, page[k], IsoFormat(started))]

\* COALESCE(game_id, '') of the unique index.
Coalesce(game_id) == IF game_id = None THEN "" ELSE game_id[1]

\* idx_schedules_unique_game on (game_date, time, away, home,
\* COALESCE(game_id, '')): two rows collide when all five are equal; a NULL
\* time is distinct from every value, another NULL included.
Conflict(row, g) ==
    /\ row.game_date = g.game_date
    /\ row.time # None /\ g.time # None /\ row.time = g.time
    /\ row.away = g.away
    /\ row.home = g.home
    /\ Coalesce(row.game_id) = Coalesce(g.game_id)

\* insert_games that commits nothing.
insert_games_Nothing(sched, games) == sched

\* db.insert_games: INSERT OR IGNORE of the games in their order; a game
\* that collides with a stored row on the unique index is skipped, every
\* other game is appended.
RECURSIVE insert_games(_, _)
insert_games(sched, games) ==
    IF games = <<>> THEN sched
    ELSE LET g == Head(games) IN
         insert_games(IF \E i \in DOMAIN sched : Conflict(sched[i], g)
                      THEN sched ELSE Append(sched, g),
                      Tail(games))

\* db.upsert_month_cache: one row per bucket, fetched_at replaced.
upsert_month_cache(cache, b, fetched_at) == Put(cache, b, fetched_at)

\* A freshness test with the comparison turned around.
is_month_cache_fresh_Inverted(cache, b, now) ==
    b \in DOMAIN cache /\ (now - FromIsoFormat(cache[b])) * TickMinutes > ttl_minutes

\* A freshness test that compares against half the TTL.
is_month_cache_fresh_Half(cache, b, now) ==
    b \in DOMAIN cache /\ (now - FromIsoFormat(cache[b])) * TickMinutes < ttl_minutes \div 2

\* db.is_month_cache_fresh: the bucket has a row and its fetched_at is less
\* than ttl_minutes old.
is_month_cache_fresh(cache, b, now) ==
    b \in DOMAIN cache /\ (now - FromIsoFormat(cache[b])) * TickMinutes < ttl_minutes

\* The ensure_month_cached_async coroutine of a caller before its first
\* call.  bucket, games and started are the locals of the call; call, prev,
\* stampAge, collected and wrote are history: the number of the call, the
\* last earlier call for the same bucket, the age of the bucket's stamp
\* when the call started, whether the call invoked the Source Collector
\* and whether it changed a table.
IdleEnsure ==
    [pc |-> "idle", bucket |-> None, games |-> <<>>, started |-> 0, call |-> 0,
     prev |-> None, stampAge |-> None, collected |-> FALSE, wrote |-> FALSE]

InitStore ==
    /\ utc = 0
    /\ schedules = <<>>
    /\ month_cache = <<>>
    /\ etask = [t \in Tasks |-> IdleEnsure]
    /\ spent = [calls |-> 0, ticks |-> 0, crashes |-> 0]
    /\ lastEnsure = <<>>
    /\ stamped = <<>>
    /\ conn = [t \in Tasks |-> "none"]

\* The connection of an ensure call when it reaches its first await or
\* returns before it.  connect() has opened it; the return of the fresh
\* path (line 23) does not close it, so it stays open until the garbage
\* collector finalises the object, which may be at the return or later.
ReturnedFresh(fresh) == IF fresh THEN {"open", "closed"} ELSE {"open"}

\* The call of t is suspended in the await of the collector, or between
\* the two commits that follow it.
Running(t) == etask[t].pc \in {"scraping", "stamping"}

\* The statements after the await run without suspension: no other
\* coroutine runs between insert_games and upsert_month_cache.
InCommit == \E t \in Tasks : etask[t].pc = "stamping"

\* The outcome of the call of t is recorded as that of the last call for
\* its bucket, unless a later call for the bucket has started meanwhile.
Finish(t, outcome) ==
    LET b == etask[t].bucket[1] IN
    IF lastEnsure[b].call = etask[t].call
    THEN [lastEnsure EXCEPT ![b].outcome = outcome]
    ELSE lastEnsure

\* service.ensure_month_cached_async(db_path, year, month, series) up to
\* its await: connect, init_db, and the return when the bucket is fresh.
EnsureStart(t, b) ==
    /\ t \in ecallers
    /\ ~Running(t)
    /\ ~InCommit
    /\ spent.calls < MaxEnsures
    /\ LET fresh == is_month_cache_fresh(month_cache, b, utc) IN
       /\ etask' = [etask EXCEPT ![t] =
              [pc |-> IF fresh THEN "returned" ELSE "scraping",
               bucket |-> Some(b), games |-> <<>>, started |-> utc,
               call |-> spent.calls + 1,
               prev |-> IF b \in DOMAIN lastEnsure THEN Some(lastEnsure[b]) ELSE None,
               stampAge |-> IF b \in DOMAIN stamped THEN Some(utc - stamped[b].at) ELSE None,
               collected |-> ~fresh, wrote |-> FALSE]]
       /\ lastEnsure' = Put(lastEnsure, b,
              [start |-> utc, call |-> spent.calls + 1, collected |-> ~fresh,
               outcome |-> IF fresh THEN "returned" ELSE "running"])
       /\ \E c \in ReturnedFresh(fresh) : conn' = [conn EXCEPT ![t] = c]
    /\ spent' = [spent EXCEPT !.calls = @ + 1]
    /\ UNCHANGED <<utc, schedules, month_cache, ecallers, stamped>>

\* scrape_month_schedule raises: nothing in ensure_month_cached_async
\* catches it, the call ends with the exception; the frame that the
\* traceback holds keeps the connection, which is not closed.
CollectFail(t) ==
    /\ etask[t].pc = "scraping"
    /\ ~InCommit
    /\ etask' = [etask EXCEPT ![t].pc = "raised"]
    /\ lastEnsure' = Finish(t, "raised")
    /\ UNCHANGED <<utc, schedules, month_cache, ecallers, spent, stamped, conn>>

\* scrape_month_schedule returns the games of the page and
\* insert_games(conn, games) commits them.
InsertGames(t, page) ==
    /\ etask[t].pc = "scraping"
    /\ ~InCommit
    /\ LET games == scrape_month_schedule(etask[t].bucket[1], page, etask[t].started)
           after == insert_games(schedules, games) IN
       /\ schedules' = after
       /\ etask' = [etask EXCEPT ![t].pc = "stamping", ![t].games = games,
                                 ![t].wrote = (after # schedules)]
    /\ UNCHANGED <<utc, month_cache, ecallers, spent, lastEnsure, stamped, conn>>

\* upsert_month_cache(conn, year, month, series,
\* datetime.utcnow().isoformat()) commits the stamp; conn.close(); return.
UpsertMonthCache(t) ==
    /\ etask[t].pc = "stamping"
    /\ LET b == etask[t].bucket[1] IN
       /\ month_cache' = upsert_month_cache(month_cache, b, IsoFormat(utc))
       /\ stamped' = Put(stamped, b, [games |-> etask[t].games, at |-> utc, call |-> etask[t].call])
    /\ etask' = [etask EXCEPT ![t].pc = "returned", ![t].wrote = TRUE]
    /\ lastEnsure' = Finish(t, "returned")
    /\ conn' = [conn EXCEPT ![t] = "closed"]
    /\ UNCHANGED <<utc, schedules, ecallers, spent>>

\* The process dies while a call is running: its coroutines and its
\* connections are gone, the tables keep what was committed.
Crash ==
    /\ \E t \in Tasks : Running(t)
    /\ spent.crashes < MaxCrashes
    /\ etask' = [t \in Tasks |-> IF Running(t) THEN [etask[t] EXCEPT !.pc = "crashed"] ELSE etask[t]]
    /\ lastEnsure' = [b \in DOMAIN lastEnsure |->
          IF \E t \in Tasks : Running(t) /\ etask[t].bucket = Some(b) /\ etask[t].call = lastEnsure[b].call
          THEN [lastEnsure[b] EXCEPT !.outcome = "crashed"] ELSE lastEnsure[b]]
    /\ spent' = [spent EXCEPT !.crashes = @ + 1]
    /\ conn' = [t \in Tasks |-> "none"]
    /\ UNCHANGED <<utc, schedules, month_cache, ecallers, stamped>>

\* Six hours pass; not between the two commits of a call.
TickUtc ==
    /\ ~InCommit
    /\ spent.ticks < (IF Cardinality(ecallers) = 1 THEN MaxUtcTicks ELSE MaxConcUtcTicks)
    /\ utc' = utc + 1
    /\ spent' = [spent EXCEPT !.ticks = @ + 1]
    /\ UNCHANGED <<schedules, month_cache, etask, ecallers, lastEnsure, stamped, conn>>

\* -------------------------------------------------------- schedule reader

\* The bytes of the texts that the store compares.
Utf8(text) ==
    CASE text = "" -> <<>>
      [] text = "14:00" -> <<49, 52, 58, 48, 48>>
      [] text = "17:00" -> <<49, 55, 58, 48, 48>>
      [] text = "18:30" -> <<49, 56, 58, 51, 48>>
      [] text = "G1" -> <<71, 49>>
      [] text = "G2" -> <<71, 50>>
      [] text = "G3" -> <<71, 51>>
      [] text = "KIA" -> <<75, 73, 65>>
      [] text = "KT" -> <<75, 84>>
      [] text = "LG" -> <<76, 71>>
      [] text = "LOTTE" -> <<76, 79, 84, 84, 69>>
      [] text = "NC" -> <<78, 67>>
      [] text = "SSG" -> <<83, 83, 71>>

\* The BINARY collation of sqlite: byte by byte, a prefix first.
RECURSIVE BinaryLess(_, _)
BinaryLess(a, b) ==
    IF b = <<>> THEN FALSE
    ELSE IF a = <<>> THEN TRUE
    ELSE IF Head(a) # Head(b) THEN Head(a) < Head(b)
    ELSE BinaryLess(Tail(a), Tail(b))

TextLess(x, y) == BinaryLess(Utf8(x), Utf8(y))

\* A nullable TEXT column in ascending order: NULL before every text.
NullsFirstLess(x, y) ==
    IF x = None THEN y # None
    ELSE y # None /\ TextLess(x[1], y[1])

\* The order in which idx_schedules_unique_game holds the rows of one
\* game_date: time, away, home, COALESCE(game_id, ''), then the rowid.
IndexBefore(sched, i, j) ==
    LET r == sched[i]
        q == sched[j] IN
    IF r.time # q.time THEN NullsFirstLess(r.time, q.time)
    ELSE IF r.away # q.away THEN TextLess(r.away, q.away)
    ELSE IF r.home # q.home THEN TextLess(r.home, q.home)
    ELSE IF Coalesce(r.game_id) # Coalesce(q.game_id)
         THEN TextLess(Coalesce(r.game_id), Coalesce(q.game_id))
    ELSE i < j

\* get_games_by_date without its ORDER BY: the rows as they were inserted.
get_games_by_date_Unordered(sched, date) ==
    SelectSeq(sched, LAMBDA r : r.game_date = date)

\* db.get_games_by_date: SELECT * FROM schedules WHERE game_date=? ORDER BY
\* time, away, home, which sqlite answers by a scan of the unique index.
get_games_by_date(sched, date) ==
    LET found == { i \in DOMAIN sched : sched[i].game_date = date }
        Rank(i) == Cardinality({ j \in found : IndexBefore(sched, j, i) }) + 1
    IN [k \in 1..Cardinality(found) |-> sched[CHOOSE i \in found : Rank(i) = k]]

\* service.get_schedule_async lines 43-57: the dict of a row.  The score is
\* known when the away score is; the link is known by its gameId.
ScheduleDict(r) ==
    [date |-> r.game_date, time |-> r.time, away |-> r.away, home |-> r.home,
     score |-> r.away_score, gamecenter_url |-> r.game_id]

\* What get_schedule_async returns once the bucket is ensured.
ScheduleOf(sched, date) ==
    LET rows == get_games_by_date(sched, date)
    IN [k \in DOMAIN rows |-> ScheduleDict(rows[k])]

\* year, month, _ = map(int, date.split("-")), with the default series.
DateBucket(date) == [year |-> date[1], month |-> date[2], series |-> "0,9,6"]

\* The dates that callers ask for.
QueryDates == { <<2025, 5, 1>>, <<2025, 5, 2>>, <<2025, 6, 1>> }

\* Rows of the schedule table for the reader: three games of day 1 at
\* different times, one of them without a time yet; games that share the
\* time, or the time and the away team, or all three with another link;
\* and a game of day 2.
DayRows ==
    [evening |-> [day |-> 1, time |-> Some("18:30"), away |-> "LG", home |-> "KT", away_score |-> None, game_id |-> Some("G1")],
     open |-> [day |-> 1, time |-> None, away |-> "NC", home |-> "SSG", away_score |-> None, game_id |-> None],
     noon |-> [day |-> 1, time |-> Some("14:00"), away |-> "KIA", home |-> "LOTTE", away_score |-> None, game_id |-> Some("G3")],
     noon2 |-> [day |-> 1, time |-> Some("14:00"), away |-> "KIA", home |-> "KT", away_score |-> None, game_id |-> Some("G2")],
     noon3 |-> [day |-> 1, time |-> Some("14:00"), away |-> "KIA", home |-> "LOTTE", away_score |-> None, game_id |-> None],
     early |-> [day |-> 1, time |-> Some("14:00"), away |-> "LG", home |-> "KT", away_score |-> Some(5), game_id |-> Some("G2")],
     next |-> [day |-> 2, time |-> Some("17:00"), away |-> "NC", home |-> "SSG", away_score |-> None, game_id |-> None]]

\* What one collection can read from the site in the runs of the reader.
DayPages ==
    { <<>>,
      <<DayRows.open, DayRows.evening, DayRows.noon>>,
      <<DayRows.noon, DayRows.noon2, DayRows.next>>,
      <<DayRows.evening, DayRows.early, DayRows.noon3, DayRows.noon>>,
      <<DayRows.open, DayRows.next>> }

\* The get_schedule_async coroutine of a caller before its first call.
IdleGet == [pc |-> "idle", date |-> None, out |-> <<>>, conn |-> "none"]

\* lines 39-57: connect, get_games_by_date, close, and the list returned.
Returned(date) ==
    [pc |-> "done", date |-> Some(date), out |-> ScheduleOf(schedules, date), conn |-> "closed"]

\* get_schedule_async(db_path, date) up to the first suspension: the call
\* of ensure_month_cached_async, and the read when the bucket is fresh.
GetScheduleStart(t, date) ==
    /\ got[t].pc # "ensure"
    /\ EnsureStart(t, DateBucket(date))
    /\ got' = [got EXCEPT ![t] =
          IF etask'[t].pc = "returned" THEN Returned(date)
          ELSE [pc |-> "ensure", date |-> Some(date), out |-> <<>>, conn |-> "none"]]

\* ensure_month_cached_async stamps the bucket and returns; the read follows
\* without suspension.
GetScheduleReturns(t) ==
    /\ got[t].pc = "ensure"
    /\ UpsertMonthCache(t)
    /\ got' = [got EXCEPT ![t] = Returned(got[t].date[1])]

\* The collector raised: the exception leaves get_schedule_async too.
GetScheduleRaises(t) ==
    /\ got[t].pc = "ensure"
    /\ CollectFail(t)
    /\ got' = [got EXCEPT ![t].pc = "raised"]

\* ---------------------------------------------------------- query facade

\* A detail-page reference: the game-center address with its gameId and,
\* when the address carries one, its section parameter.
Url(gameId, section) == [gameId |-> gameId, section |-> section]

\* The records of one date as get_schedule_async returns them: two games
\* of LG, a game without game-center link, and a game whose link carries
\* the gameId of the first.
DateRecords ==
    { [away |-> "LG", home |-> "KT", gamecenter_url |-> Some(Url(Some("G1"), "REVIEW"))],
      [away |-> "NC", home |-> "LG", gamecenter_url |-> Some(Url(Some("G2"), ""))],
      [away |-> "KIA", home |-> "LOTTE", gamecenter_url |-> None],
      [away |-> "NC", home |-> "KT", gamecenter_url |-> Some(Url(Some("G1"), ""))] }

\* The lists of at most MaxGames different records.
GameLists ==
    { g \in UNION { [1..n -> DateRecords] : n \in 0..MaxGames } :
        \A i \in DOMAIN g, j \in DOMAIN g : g[i] = g[j] => i = j }

\* The team and game_id arguments of a query.
TeamArgs == {None, Some(""), Some(" "), Some("LG"), Some(" LG "), Some("KT"), Some("KIA"), Some("SSG")}

GameIdArgs == {None, Some(""), Some("G1"), Some("G2"), Some("G9")}

\* str.strip() on the team names of TeamArgs.
Strip(text) ==
    CASE text = " " -> ""
      [] text = " LG " -> "LG"
      [] OTHER -> text

\* Python's truth value of an optional string: None and "" are false.
Truthy(opt) == opt # None /\ opt # Some("")

\* service._extract_game_id(gamecenter_url): the external identifier of
\* the record that carries the reference, None without a reference.
_extract_game_id(gamecenter_url) ==
    IF gamecenter_url = None THEN None ELSE gamecenter_url[1].gameId

\* The records of games, in their order, that have team t as away or home.
RECURSIVE Matches(_, _)
Matches(games, t) ==
    IF games = <<>> THEN <<>>
    ELSE (IF t \in {Head(games).away, Head(games).home} THEN <<Head(games)>> ELSE <<>>)
         \o Matches(Tail(games), t)

\* The first record of games whose identifier is game_id, or None.
RECURSIVE FirstById(_, _)
FirstById(games, game_id) ==
    IF games = <<>> THEN None
    ELSE IF _extract_game_id(Head(games).gamecenter_url) = game_id THEN Some(Head(games))
    ELSE FirstById(Tail(games), game_id)

\* _select_game that takes the first of several records of the team.
_select_game_FirstOfTeam(games, team, game_id) ==
    IF Truthy(game_id) THEN FirstById(games, game_id)
    ELSE IF Truthy(team)
    THEN LET matches == Matches(games, Strip(team[1])) IN
         IF Len(matches) >= 1 THEN Some(matches[1]) ELSE None
    ELSE IF games # <<>> THEN Some(games[1]) ELSE None

\* _select_game that looks at the team before the identifier.
_select_game_TeamFirst(games, team, game_id) ==
    IF Truthy(team)
    THEN LET matches == Matches(games, Strip(team[1])) IN
         IF Len(matches) = 1 THEN Some(matches[1]) ELSE None
    ELSE IF Truthy(game_id) THEN FirstById(games, game_id)
    ELSE IF games # <<>> THEN Some(games[1]) ELSE None

\* realtime_playwright._select_game(games, team, game_id).
_select_game(games, team, game_id) ==
    IF Truthy(game_id) THEN FirstById(games, game_id)
    ELSE IF Truthy(team)
    THEN LET matches == Matches(games, Strip(team[1])) IN
         IF Len(matches) = 1 THEN Some(matches[1]) ELSE None
    ELSE IF games # <<>> THEN Some(games[1]) ELSE None

\* A text is the sequence of its characters.  The decimal digits:
Digits == <<"0", "1", "2", "3", "4", "5", "6", "7", "8", "9">>

\* Characters for which str.isdigit() holds and that int() does not accept:
\* SUPERSCRIPT TWO, written "^2" here.
Superscripts == {"^2"}

IsDecimal(ch) == \E n \in DOMAIN Digits : Digits[n] = ch

\* ch.isdigit()
IsDigit(ch) == IsDecimal(ch) \/ ch \in Superscripts

DigitValue(ch) == (CHOOSE n \in DOMAIN Digits : Digits[n] = ch) - 1

\* The number that a non-empty sequence of decimal digits spells.
RECURSIVE ToInt(_)
ToInt(digits) ==
    IF Len(digits) = 1 THEN DigitValue(digits[1])
    ELSE 10 * ToInt(SubSeq(digits, 1, Len(digits) - 1)) + DigitValue(digits[Len(digits)])

\* The ValueError that int() raises, where a number or None can stand.
ValueError == <<"raise", "ValueError">>

\* int(text) of a non-empty text: its number, or a ValueError when a
\* character of the text is not a decimal digit.
ParseDecimal(text) ==
    IF \A k \in DOMAIN text : IsDecimal(text[k]) THEN Some(ToInt(text)) ELSE ValueError

\* _parse_int(text): the number that the digits of the text spell, None
\* for an empty text or one without digits.
_parse_int(text) ==
    IF text = <<>> THEN None
    ELSE LET digits == SelectSeq(text, IsDigit) IN
         IF digits # <<>> THEN ParseDecimal(digits) ELSE None

\* _total_from_line(row): the last number among the cells of the row; an
\* exception of _parse_int leaves the list comprehension.
_total_from_line(row) ==
    LET parsed == [k \in DOMAIN row |-> _parse_int(row[k])]
        nums == SelectSeq(parsed, LAMBDA n : n # None) IN
    IF \E k \in DOMAIN parsed : parsed[k] = ValueError THEN ValueError
    ELSE IF nums # <<>> THEN nums[Len(nums)] ELSE None

\* _derive_metrics(linescore): the dict returned, or the exception raised.
_derive_metrics(linescore) ==
    IF Len(linescore) < 2 THEN [run_diff |-> None]
    ELSE LET away_total == _total_from_line(linescore[1])
             home_total == _total_from_line(linescore[2]) IN
         IF away_total = ValueError \/ home_total = ValueError
         THEN [raised |-> "ValueError"]
         ELSE [run_diff |-> IF away_total # None /\ home_total # None
                            THEN Some(away_total[1] - home_total[1]) ELSE None]

\* The outcome of a call is an exception.
Raised(outcome) == "raised" \in DOMAIN outcome

\* The cells of a linescore table: empty, a number of one or two digits, a
\* dash, a team name, digits around a dash, a footnote mark alone and
\* after a number.
Cells ==
    { <<>>, <<"1">>, <<"3">>, <<"1", "0">>, <<"-">>, <<"L", "G">>,
      <<"1", "-", "2">>, <<"^2">>, <<"3", "^2">> }

\* Rows of at most MaxCells cells, and the two rows of a finished game.
LineRows ==
    UNION { [1..n -> Cells] : n \in 0..MaxCells }
    \cup { << <<"1">>, <<"0">>, <<"2">>, <<"3">> >>, << <<"0">>, <<"1">>, <<"1">>, <<"2">> >> }

\* Tables of at most MaxRows rows.
LineScores == UNION { [1..n -> LineRows] : n \in 0..MaxRows }

\* No call of _derive_metrics yet.
IdleMetrics == [pc |-> "idle", linescore |-> <<>>, result |-> None]

\* _derive_metrics(linescore) is called and returns or raises.
DeriveMetrics ==
    /\ dm.pc = "idle"
    /\ LET outcome == _derive_metrics(dm.linescore) IN
       dm' = [dm EXCEPT !.pc = IF Raised(outcome) THEN "raised" ELSE "done",
                        !.result = Some(outcome)]

\* _validate_rows that never warns.
_validate_rows_Silent(rows, label, errors) == errors

\* _validate_rows(rows, label, errors): the errors list afterwards.
_validate_rows(rows, label, errors) ==
    IF rows = <<>> THEN Append(errors, <<label, "empty">>) ELSE errors

\* data.get(field, []) on a payload.
Get(data, field) == IF field \in DOMAIN data.tables THEN data.tables[field] ELSE <<>>

\* Rows of the linescore table: the team and its runs by inning and in
\* total; a total that is not shown yet is a dash.
AwayLine == << <<"L", "G">>, <<"1">>, <<"2">>, <<"3">> >>
HomeLine == << <<"K", "T">>, <<"0">>, <<"1", "0">>, <<"1", "0">> >>
OpenLine == << <<"K", "T">>, <<"4">>, <<"-">> >>
MarkedLine == << <<"K", "T">>, <<"4">>, <<"4", "^2">> >>
SomeRows == << <<"x">> >>

\* The pages while the facade is not run: every table filled.
FullSite ==
    [review |-> [linescore |-> <<AwayLine, HomeLine>>, summary |-> SomeRows,
                 rheb |-> SomeRows, keyplayer_text |-> Some("MVP")],
     preview |-> [away |-> SomeRows, home |-> SomeRows]]

\* One state of the two pages.
Site(linescore, summary, rheb, keyplayer_text, away, home) ==
    [review |-> [linescore |-> linescore, summary |-> summary, rheb |-> rheb,
                 keyplayer_text |-> keyplayer_text],
     preview |-> [away |-> away, home |-> home]]

\* The states of the pages that the facade is run against: every table
\* filled, each table empty in turn, the linescore with one row only or
\* with a total not shown yet or with a footnote mark, and nothing filled.
SitePages ==
    { FullSite,
      Site(<<AwayLine, HomeLine>>, SomeRows, SomeRows, None, SomeRows, SomeRows),
      Site(<<>>, SomeRows, SomeRows, Some("MVP"), SomeRows, SomeRows),
      Site(<<AwayLine, HomeLine>>, <<>>, SomeRows, Some("MVP"), SomeRows, SomeRows),
      Site(<<AwayLine, HomeLine>>, SomeRows, <<>>, Some("MVP"), SomeRows, SomeRows),
      Site(<<AwayLine, HomeLine>>, SomeRows, SomeRows, Some("MVP"), <<>>, SomeRows),
      Site(<<AwayLine, HomeLine>>, SomeRows, SomeRows, Some("MVP"), SomeRows, <<>>),
      Site(<<AwayLine>>, SomeRows, SomeRows, Some("MVP"), SomeRows, SomeRows),
      Site(<<AwayLine, OpenLine>>, SomeRows, SomeRows, Some("MVP"), SomeRows, SomeRows),
      Site(<<AwayLine, MarkedLine>>, SomeRows, SomeRows, Some("MVP"), SomeRows, SomeRows),
      Site(<<>>, <<>>, <<>>, None, <<>>, <<>>) }

\* The build_realtime_payload_playwright coroutine of a caller before its
\* first call.
IdleFacade ==
    [pc |-> "idle", call |-> 0, team |-> None, game_id |-> None, game |-> None,
     review |-> None, response |-> None]

\* The query of a response.
Query(team, game_id) == [team |-> team, game_id |-> game_id]

\* A no-data response that does not say so.
NoDataResponse_Silent(team, game_id) ==
    [query |-> Query(team, game_id), stale |-> TRUE, errors |-> <<>>, facts |-> <<>>]

\* lines 240-246: the response when no record or no reference was found.
NoDataResponse(team, game_id) ==
    [query |-> Query(team, game_id), stale |-> TRUE,
     errors |-> << <<"no_matching_game_or_url">> >>, facts |-> <<>>]

\* A response-level flag that looks at the summary fetch only.
StaleOr_ReviewOnly(review, lineup) == review.stale

\* line 288: review.stale or lineup.stale.
StaleOr(review, lineup) == review.stale \/ lineup.stale

\* lines 248-292: the response from the selected record and the results
\* of the two fetch calls.
Assemble(team, game_id, game, review, lineup) ==
    LET e1 == IF Truthy(review.error) THEN << <<"review", review.error[1]>> >> ELSE <<>>
        e2 == IF Truthy(lineup.error) THEN Append(e1, <<"lineup", lineup.error[1]>>) ELSE e1
        e3 == IF review.data # None
              THEN _validate_rows(Get(review.data[1], "rheb"), "rheb",
                     _validate_rows(Get(review.data[1], "summary"), "summary",
                       _validate_rows(Get(review.data[1], "linescore"), "linescore", e2)))
              ELSE e2
        keyplayer_text == IF review.data # None
                          THEN Get(review.data[1], "keyplayer_text") ELSE None
        e4 == IF lineup.data # None
              THEN _validate_rows(Get(lineup.data[1], "home"), "lineup_home",
                     _validate_rows(Get(lineup.data[1], "away"), "lineup_away", e3))
              ELSE e3
    IN [query |-> Query(team, game_id),
        stale |-> StaleOr(review, lineup),
        errors |-> e4,
        facts |-> [schedule_game |-> game,
                   review |-> review.data,
                   lineup |-> lineup.data,
                   key_players |-> IF Truthy(keyplayer_text)
                                   THEN Some([text |-> keyplayer_text[1]]) ELSE None,
                   stale |-> [review |-> review.stale, lineup |-> lineup.stale],
                   source_urls |-> [review |-> game.gamecenter_url[1],
                                    lineup |-> game.gamecenter_url[1]]],
        derived_metrics |-> _derive_metrics(IF review.data # None
                                            THEN Get(review.data[1], "linescore") ELSE <<>>)]

\* A caller enters build_realtime_payload_playwright(date, team, game_id)
\* and awaits get_schedule_async.
FacadeCall(t, team, game_id) ==
    /\ t \in callers
    /\ ftask[t].pc \in {"idle", "done", "raised"}
    /\ ftask[t].call < MaxQueries
    /\ ftask' = [ftask EXCEPT ![t] =
           [IdleFacade EXCEPT !.pc = "schedule", !.call = ftask[t].call + 1,
                              !.team = team, !.game_id = game_id]]
    /\ UNCHANGED <<fetchVars, storeVars, sel, site, got, dm>>

\* get_schedule_async raises (the collector failed): nothing in the facade
\* catches it.
ScheduleRaises(t) ==
    /\ ftask[t].pc = "schedule"
    /\ ftask' = [ftask EXCEPT ![t].pc = "raised"]
    /\ UNCHANGED <<fetchVars, storeVars, sel, site, got, dm>>

\* get_schedule_async returns the records of the date: _select_game, then
\* the no-data response or the call of _scrape_review.
ScheduleReturns(t, games) ==
    /\ ftask[t].pc = "schedule"
    /\ LET game == _select_game(games, ftask[t].team, ftask[t].game_id) IN
       IF game = None \/ game[1].gamecenter_url = None
       THEN /\ ftask' = [ftask EXCEPT ![t].pc = "done", ![t].game = game,
                             ![t].response = Some(NoDataResponse(ftask[t].team, ftask[t].game_id))]
            /\ UNCHANGED fetchVars
       ELSE /\ ftask' = [ftask EXCEPT ![t].pc = "review", ![t].game = game]
            /\ FetchStart(t, game[1].gamecenter_url[1], "review")
    /\ UNCHANGED <<storeVars, sel, site, got, dm>>

\* _scrape_review has returned: the call of _scrape_lineup.
ReviewReturns(t) ==
    /\ ftask[t].pc = "review"
    /\ task[t].pc = "done"
    /\ ftask' = [ftask EXCEPT ![t].pc = "lineup", ![t].review = task[t].result]
    /\ FetchStart(t, ftask[t].game[1].gamecenter_url[1], "preview")
    /\ UNCHANGED <<storeVars, sel, site, got, dm>>

\* _scrape_lineup has returned: the response is assembled and returned,
\* unless _derive_metrics raises at line 291.
LineupReturns(t) ==
    /\ ftask[t].pc = "lineup"
    /\ task[t].pc = "done"
    /\ LET response == Assemble(ftask[t].team, ftask[t].game_id, ftask[t].game[1],
                                ftask[t].review[1], task[t].result[1]) IN
       IF Raised(response.derived_metrics)
       THEN ftask' = [ftask EXCEPT ![t].pc = "raised"]
       ELSE ftask' = [ftask EXCEPT ![t].pc = "done", ![t].response = Some(response)]
    /\ UNCHANGED <<fetchVars, storeVars, sel, site, got, dm>>

\* No call of _select_game yet.
IdleSelect == [pc |-> "idle", games |-> <<>>, team |-> None, game_id |-> None, result |-> None]

InitFacade ==
    /\ sel = IdleSelect
    /\ site = FullSite
    /\ ftask = [t \in Tasks |-> IdleFacade]
    /\ got = [t \in Tasks |-> IdleGet]
    /\ dm = IdleMetrics

\* _select_game is called with the arguments and returns.
SelectGame(games, team, game_id) ==
    /\ sel.pc = "idle"
    /\ sel' = [pc |-> "done", games |-> games, team |-> team, game_id |-> game_id,
               result |-> _select_game(games, team, game_id)]

\* The next query.
SelectAgain ==
    /\ sel.pc = "done"
    /\ sel' = IdleSelect

\* ------------------------------------------------------- specifications

FetchStep ==
    /\ \/ \E t \in Tasks, url \in Refs, kind \in Kinds : FetchStart(t, url, kind)
       \/ \E t \in Tasks : RateLimitWake(t)
       \/ \E t \in Tasks : AttemptSuccess(t)
       \/ \E t \in Tasks, exc \in Exceptions : AttemptFail(t, exc)
       \/ \E t \in Tasks : BackoffWake(t)
       \/ Tick
    /\ UNCHANGED <<storeVars, facadeVars>>

NextFetch == FetchStep \/ (Jump /\ UNCHANGED <<storeVars, facadeVars>>)

StoreStep ==
    /\ \/ \E t \in Tasks, b \in Buckets : EnsureStart(t, b)
       \/ \E t \in Tasks : CollectFail(t)
       \/ \E t \in Tasks, page \in Pages : InsertGames(t, page)
       \/ \E t \in Tasks : UpsertMonthCache(t)
       \/ TickUtc
    /\ UNCHANGED <<fetchVars, facadeVars>>

NextStore == StoreStep \/ (Crash /\ UNCHANGED <<fetchVars, facadeVars>>)

\* One caller issuing its fetch calls one after the other.
InitSeq == InitFetch /\ InitStore /\ InitFacade /\ callers = {"a"} /\ ecallers = {}

\* Two callers with fetch calls in flight together.
InitConc == InitFetch /\ InitStore /\ InitFacade /\ callers = Tasks /\ ecallers = {}

\* One caller issuing its ensure calls one after the other.
InitStoreSeq == InitFetch /\ InitStore /\ InitFacade /\ callers = {} /\ ecallers = {"a"}

SpecFetch == InitSeq /\ [][NextFetch]_vars

SpecFetchConc == InitConc /\ [][FetchStep]_vars

SpecStore == InitStoreSeq /\ [][NextStore]_vars

\* Two callers with ensure calls in flight together.
InitStoreConc == InitFetch /\ InitStore /\ InitFacade /\ callers = {} /\ ecallers = Tasks

SpecStoreConc == InitStoreConc /\ [][StoreStep]_vars

NextSelect ==
    /\ \/ \E games \in GameLists, team \in TeamArgs, game_id \in GameIdArgs :
             SelectGame(games, team, game_id)
       \/ SelectAgain
    /\ UNCHANGED <<fetchVars, storeVars, site, ftask, got, dm>>

\* Calls of _select_game, one after the other.
InitSelect == InitFetch /\ InitStore /\ InitFacade /\ callers = {} /\ ecallers = {}

SpecSelect == InitSelect /\ [][NextSelect]_vars

\* The records of a date in the runs of the facade: at most one.
FacadeGameLists == { g \in GameLists : Len(g) <= 1 }

NextFacade ==
    \/ \E t \in Tasks, team \in {None, Some("LG")}, game_id \in {None, Some("G1")} :
          FacadeCall(t, team, game_id)
    \/ \E t \in Tasks : ScheduleRaises(t)
    \/ \E t \in Tasks, games \in FacadeGameLists : ScheduleReturns(t, games)
    \/ \E t \in Tasks : ReviewReturns(t)
    \/ \E t \in Tasks : LineupReturns(t)
    \/ /\ \/ \E t \in Tasks : RateLimitWake(t)
          \/ \E t \in Tasks : AttemptSuccess(t)
          \/ \E t \in Tasks, exc \in Exceptions : AttemptFail(t, exc)
          \/ \E t \in Tasks : BackoffWake(t)
          \/ Wait
       /\ UNCHANGED <<storeVars, facadeVars>>

\* One caller of the facade, the pages in any of their states.
InitFacadeRun ==
    /\ InitFetch /\ InitStore
    /\ callers = {"a"} /\ ecallers = {}
    /\ sel = IdleSelect
    /\ site \in SitePages
    /\ ftask = [t \in Tasks |-> IdleFacade]
    /\ got = [t \in Tasks |-> IdleGet]
    /\ dm = IdleMetrics

SpecFacade == InitFacadeRun /\ [][NextFacade]_vars

\* Two callers of the facade, their calls in flight together.
InitFacadeConc == InitFetch /\ InitStore /\ InitFacade /\ callers = Tasks /\ ecallers = {}

\* Both ask for the only game of the date, which has a reference; the
\* exceptions of the fetcher carry no text.
NextFacadeConc ==
    \/ \E t \in Tasks : FacadeCall(t, None, None)
    \/ \E t \in Tasks, games \in { g \in FacadeGameLists : g # <<>> /\ g[1].away = "NC" /\ g[1].home = "LG" } :
          ScheduleReturns(t, games)
    \/ \E t \in Tasks : ReviewReturns(t)
    \/ \E t \in Tasks : LineupReturns(t)
    \/ /\ \/ \E t \in Tasks : RateLimitWake(t)
          \/ \E t \in Tasks : AttemptSuccess(t)
          \/ \E t \in Tasks, exc \in { e \in Exceptions : e.text = "" } : AttemptFail(t, exc)
          \/ \E t \in Tasks : BackoffWake(t)
          \/ Wait
       /\ UNCHANGED <<storeVars, facadeVars>>

SpecFacadeConc == InitFacadeConc /\ [][NextFacadeConc]_vars

NextSchedule ==
    /\ \/ \E t \in Tasks, date \in QueryDates : GetScheduleStart(t, date)
       \/ \E t \in Tasks, page \in DayPages : InsertGames(t, page) /\ UNCHANGED got
       \/ \E t \in Tasks : GetScheduleReturns(t)
       \/ \E t \in Tasks : GetScheduleRaises(t)
       \/ TickUtc /\ UNCHANGED got
    /\ UNCHANGED <<fetchVars, sel, site, ftask, dm>>

\* One caller of get_schedule_async, its calls one after the other.
SpecSchedule == InitStoreSeq /\ [][NextSchedule]_vars

\* Calls of _derive_metrics on the tables of LineScores.
NextMetrics == DeriveMetrics /\ UNCHANGED <<fetchVars, storeVars, sel, site, ftask, got>>

InitMetrics ==
    /\ InitFetch /\ InitStore
    /\ callers = {} /\ ecallers = {}
    /\ sel = IdleSelect
    /\ site = FullSite
    /\ ftask = [t \in Tasks |-> IdleFacade]
    /\ got = [t \in Tasks |-> IdleGet]
    /\ dm \in { [IdleMetrics EXCEPT !.linescore = table] : table \in LineScores }

SpecMetrics == InitMetrics /\ [][NextMetrics]_vars

\* The fetcher answers the running attempt of t, with success or failure.
Answer(t) == AttemptSuccess(t) \/ \E exc \in Exceptions : AttemptFail(t, exc)

FetchLiveStep ==
    /\ \/ \E t \in Tasks, url \in Refs, kind \in Kinds :
             ncalls < MaxLiveCalls /\ FetchStart(t, url, kind)
       \/ \E t \in Tasks : RateLimitWake(t)
       \/ \E t \in Tasks : Answer(t)
       \/ \E t \in Tasks : BackoffWake(t)
       \/ Wait
    /\ UNCHANGED <<storeVars, facadeVars>>

\* The event loop resumes every sleeper whose delay is over, the fetcher
\* answers every attempt, and time passes.
FairFetch ==
    /\ \A t \in Tasks : WF_vars(RateLimitWake(t) /\ UNCHANGED <<storeVars, facadeVars>>)
    /\ \A t \in Tasks : WF_vars(BackoffWake(t) /\ UNCHANGED <<storeVars, facadeVars>>)
    /\ \A t \in Tasks : WF_vars(Answer(t) /\ UNCHANGED <<storeVars, facadeVars>>)
    /\ WF_vars(Wait /\ UNCHANGED <<storeVars, facadeVars>>)

\* Two callers whose fetch calls run to their end.
SpecFetchLive == InitConc /\ [][FetchLiveStep]_vars /\ FairFetch

\* ------------------------------------------- realtime fetch cache: claims

\* Caller t enters a fetch call in this step.
Starts(t) == task'[t].call # task[t].call

\* The outcome of a call served from the cache without any page load.
ServedFromCache(t, data) ==
    /\ task'[t].pc = "done"
    /\ task'[t].result = Some(FetchResult(data, FALSE, None))
    /\ task'[t].ndisp = 0
    /\ lastDispatch' = lastDispatch

\* C1 as stated: whenever a fetch call for a key starts less than the TTL
\* after the previous fetch call for that key returned, it returns that call's
\* payload with stale=false and error=none and loads no page.
C1_CacheTTL_AsStated ==
    [][\A t \in Tasks :
         LET key == task'[t].key[1]
         IN (Starts(t) /\ key \in DOMAIN lastDone /\ mono - lastDone[key].at < TTL)
                => ServedFromCache(t, lastDone[key].result.data)]_vars

\* C1 amended: whenever a fetch call for a key starts while the key's cache
\* entry still holds the payload the previous call for that key returned and
\* is less than the TTL old, it returns that payload with stale=false and
\* error=none and loads no page.
C1_CacheTTL ==
    [][\A t \in Tasks :
         LET key == task'[t].key[1]
         IN (/\ Starts(t)
             /\ key \in DOMAIN lastDone
             /\ key \in DOMAIN _CACHE
             /\ lastDone[key].result.data = Some(_CACHE[key].data)
             /\ mono - _CACHE[key].t < TTL)
                => ServedFromCache(t, lastDone[key].result.data)]_vars

\* A call was served, without a page load, the payload an earlier call stored.
C1_Witness ==
    \E t \in Tasks :
        /\ task[t].pc = "done"
        /\ task[t].ndisp = 0
        /\ task[t].result[1].stale = FALSE
        /\ task[t].result[1].data[1].v < task[t].call
        /\ mono > _CACHE[task[t].key[1]].t

\* The call of t has returned after its three attempts all failed.
Exhausted(t) == task[t].pc = "done" /\ task[t].i = Attempts

\* C2: a call whose three attempts all failed while the cache holds an entry
\* for its key returns the cached payload with stale=true and, as error, the
\* text of the exception of the last failed attempt (never null).
C2_StaleFallback ==
    \A t \in Tasks :
        (Exhausted(t) /\ task[t].key[1] \in DOMAIN _CACHE)
            => /\ task[t].exc # None
               /\ task[t].result =
                     Some(FetchResult(Some(_CACHE[task[t].key[1]].data), TRUE, task[t].exc))

\* A call fell back on an entry at least as old as the TTL.
C2_Witness ==
    \E t \in Tasks :
        /\ Exhausted(t)
        /\ task[t].key[1] \in DOMAIN _CACHE
        /\ mono - _CACHE[task[t].key[1]].t >= TTL
        /\ task[t].result[1].stale

\* C3: a call whose three attempts all failed while the cache holds no entry
\* for its key returns payload null, stale=true and as error the text of the
\* last failed attempt, or "scrape_failed" when that text is empty.
C3_NoCacheFailure ==
    \A t \in Tasks :
        (Exhausted(t) /\ task[t].key[1] \notin DOMAIN _CACHE)
            => /\ task[t].exc # None
               /\ task[t].result =
                     Some(FetchResult(None, TRUE,
                                      IF task[t].exc = Some("")
                                      THEN Some("scrape_failed") ELSE task[t].exc))

\* A call without cache entry failed with an empty error text.
C3_Witness ==
    \E t \in Tasks :
        /\ Exhausted(t)
        /\ task[t].key[1] \notin DOMAIN _CACHE
        /\ task[t].exc = Some("")
        /\ task[t].result[1].error = Some("scrape_failed")

\* C4: no fetch call lets an exception of the fetcher leave the coroutine:
\* every call that ended returned a FetchResult, and a call whose attempts
\* all failed carries the failure as stale=true with a non-null error.
C4_NeverRaises ==
    \A t \in Tasks :
        /\ task[t].pc # "raised"
        /\ task[t].pc = "done" => task[t].result # None
        /\ Exhausted(t) =>
              (task[t].result[1].stale /\ task[t].result[1].error # None)

\* A call returned although the fetcher raised during it.
C4_Witness ==
    \E t \in Tasks :
        /\ task[t].pc = "done"
        /\ task[t].exc # None
        /\ task[t].result # None

\* A page load of kind k starts in this step.
Dispatches(k) ==
    /\ k \in DOMAIN lastDispatch'
    /\ k \notin DOMAIN lastDispatch \/ lastDispatch'[k] # lastDispatch[k]

\* C5: with calls issued one after the other, the first page load of a call
\* starts at least the minimum interval after every page load of the calls
\* of that kind before it.
C5_RateLimitSequential ==
    [][\A k \in Kinds :
         (/\ Dispatches(k)
          /\ k \in DOMAIN lastDispatch
          /\ lastDispatch'[k].call # lastDispatch[k].call)
             => lastDispatch'[k].at - lastDispatch[k].at >= MinInterval]_vars

\* C6: with calls in flight together, the first page load of one call (the
\* one _rate_limit lets through) starts at least the minimum interval after
\* the first page load of another call of that kind that is still in flight.
C6_RateLimitConcurrent ==
    [][\A k \in Kinds :
         (/\ Dispatches(k)
          /\ k \in DOMAIN lastDispatch
          /\ lastDispatch'[k].n = 1
          /\ lastDispatch[k].n = 1
          /\ lastDispatch'[k].by # lastDispatch[k].by
          /\ InFlight(lastDispatch[k].by)
          /\ task[lastDispatch[k].by].call = lastDispatch[k].call)
             => lastDispatch'[k].at - lastDispatch[k].at >= MinInterval]_vars

\* ---------------------------------------- schedule cache manager: claims

\* The ensure call of t has an earlier call for the same bucket before it.
HasPrev(t) == etask[t].pc # "idle" /\ etask[t].prev # None

\* C7 as stated: for every bucket, when ensure_month_cached_async is called
\* twice in sequence and the second call starts less than the 12-hour TTL
\* after the first, the collector is invoked at most once across the two
\* calls and the second call writes nothing to schedules or month_cache.
C7_FreshnessIdempotence_AsStated ==
    \A t \in Tasks :
        (HasPrev(t) /\ (etask[t].started - etask[t].prev[1].start) * TickMinutes < ttl_minutes)
        => /\ ~(etask[t].prev[1].collected /\ etask[t].collected)
           /\ ~etask[t].wrote

\* C7: for every bucket, when ensure_month_cached_async is called twice in
\* sequence, the first call returns normally and the second call starts
\* less than 12 hours after the instant of the bucket's stamp in
\* month_cache, the second call does not invoke the collector and writes
\* nothing to schedules or month_cache.
C7_FreshnessIdempotence ==
    \A t \in Tasks :
        (/\ HasPrev(t)
         /\ etask[t].prev[1].outcome = "returned"
         /\ etask[t].stampAge # None
         /\ etask[t].stampAge[1] * TickMinutes < ttl_minutes)
        => /\ ~etask[t].collected
           /\ ~etask[t].wrote
           /\ etask[t].pc = "returned"

\* A second call that found the stamp written by the first call's
\* collection less than 12 hours old, and returned.
C7_Witness ==
    \E t \in Tasks :
        /\ HasPrev(t)
        /\ etask[t].prev[1].outcome = "returned"
        /\ etask[t].prev[1].collected
        /\ etask[t].stampAge = Some(1)
        /\ etask[t].pc = "returned"
        /\ Len(schedules) > 0

\* C8: when the collector raises during ensure_month_cached_async the call
\* ends with the failure, month_cache and schedules are left as they were,
\* and the next call for the same bucket invokes the collector again.
C8_CollectionFailure ==
    [][\A t \in Tasks :
        /\ (etask[t].pc = "scraping" /\ etask'[t].pc \notin {"scraping", "stamping", "crashed"})
           => /\ etask'[t].pc = "raised"
              /\ month_cache' = month_cache
              /\ schedules' = schedules
        /\ (/\ etask'[t].call # etask[t].call
            /\ etask'[t].prev # None
            /\ etask'[t].prev[1].outcome = "raised")
           => /\ etask'[t].pc = "scraping"
              /\ etask'[t].collected]_vars

\* The call after a failed collection for the same bucket is collecting,
\* with rows of an earlier collection in the store.
C8_Witness ==
    \E t \in Tasks :
        /\ HasPrev(t)
        /\ etask[t].prev[1].outcome = "raised"
        /\ etask[t].pc = "scraping"
        /\ Len(schedules) > 0

\* Some row of schedules holds the key of the collected game g.
Committed(g) ==
    \E i \in DOMAIN schedules :
        /\ schedules[i].game_date = g.game_date
        /\ schedules[i].time = g.time
        /\ schedules[i].away = g.away
        /\ schedules[i].home = g.home
        /\ schedules[i].game_id = g.game_id

\* Every bucket's stamp was written by a collection whose records are all
\* in schedules.
StampImpliesRecords ==
    \A b \in DOMAIN month_cache :
        /\ b \in DOMAIN stamped
        /\ month_cache[b] = IsoFormat(stamped[b].at)
        /\ \A k \in DOMAIN stamped[b].games : Committed(stamped[b].games[k])

\* A crash between insert_games and upsert_month_cache leaves month_cache
\* as it was and the bucket not fresh.
CrashLeavesStale ==
    \A t \in Tasks :
        (etask[t].pc = "stamping" /\ etask'[t].pc = "crashed")
        => /\ month_cache' = month_cache
           /\ ~is_month_cache_fresh(month_cache', etask[t].bucket[1], utc')

\* C9: in every reachable state, the states between the steps of a running
\* ensure_month_cached_async and those left by a crash included, a stamp in
\* month_cache exists only if every record that its collection returned
\* has a row with its key in schedules; a crash between insert_games and
\* upsert_month_cache leaves the bucket without the stamp, not fresh.
C9_InsertThenStamp == []StampImpliesRecords /\ [][CrashLeavesStale]_vars

\* A crash after insert_games committed rows and before the stamp.
C9_Witness ==
    \E t \in Tasks :
        /\ etask[t].pc = "crashed"
        /\ etask[t].wrote
        /\ Len(etask[t].games) > 0
        /\ etask[t].bucket[1] \notin DOMAIN month_cache

\* The rows of sched that hold the logical event of g: same date, time,
\* away, home and identifier.
RowsOf(sched, g) ==
    { i \in DOMAIN sched :
        /\ sched[i].game_date = g.game_date
        /\ sched[i].time = g.time
        /\ sched[i].away = g.away
        /\ sched[i].home = g.home
        /\ sched[i].game_id = g.game_id }

\* C10: for every event record, whichever of time and game_id it has,
\* insert_games called with the logical event of a row that an earlier
\* insert_games stored leaves exactly one row for it in schedules.
C10_InsertIdempotence ==
    [][\A t \in Tasks :
        (etask[t].pc = "scraping" /\ etask'[t].pc = "stamping")
        => \A k \in DOMAIN etask'[t].games :
              RowsOf(schedules, etask'[t].games[k]) # {}
              => Cardinality(RowsOf(schedules', etask'[t].games[k])) = 1]_vars

\* Caller t enters an ensure call in this step.
EnsureStarts(t) == etask'[t].call # etask[t].call

\* C11: for any number of ensure_month_cached_async calls for one bucket,
\* calls in flight together included, the collector is invoked at most
\* once for the bucket within any 12 hours: a call that invokes it starts
\* at least 12 hours after the last earlier call for the bucket that
\* invoked it.
C11_OneCollectionPerWindow ==
    [][\A t \in Tasks :
        (/\ EnsureStarts(t)
         /\ etask'[t].collected
         /\ etask'[t].prev # None
         /\ etask'[t].prev[1].collected)
        => (etask'[t].started - etask'[t].prev[1].start) * TickMinutes >= ttl_minutes]_vars

\* The calls of t and u are for one bucket, both invoked the collector, the
\* call of u started while that of t was awaiting the collector, and both
\* have returned.
Interleaved(t, u) ==
    /\ etask[t].pc = "returned" /\ etask[u].pc = "returned"
    /\ etask[t].bucket = etask[u].bucket
    /\ etask[t].collected /\ etask[u].collected
    /\ etask[u].prev # None
    /\ etask[u].prev[1].call = etask[t].call
    /\ etask[u].prev[1].outcome = "running"

\* C12: after two ensure_month_cached_async calls for one bucket that were
\* interleaved at the await of the collector, both have returned, schedules
\* holds exactly one row for every record that either collection returned,
\* and the bucket's month_cache row is the one written by the later upsert.
C12_ConcurrentEnsureSafe ==
    \A t \in Tasks, u \in Tasks :
        Interleaved(t, u)
        => LET b == etask[t].bucket[1] IN
           /\ \A c \in {t, u} : \A k \in DOMAIN etask[c].games :
                 Cardinality(RowsOf(schedules, etask[c].games[k])) = 1
           /\ b \in DOMAIN month_cache
           /\ stamped[b].call \in {etask[t].call, etask[u].call}
           /\ month_cache[b] = IsoFormat(stamped[b].at)

\* The key of a record: date, time, away, home, identifier or empty.
RecordKey(g) == <<g.game_date, g.time, g.away, g.home, Coalesce(g.game_id)>>

\* The records of games, in their order, whose key no row of sched holds.
RECURSIVE Unstored(_, _)
Unstored(sched, games) ==
    IF games = <<>> THEN <<>>
    ELSE LET g == Head(games) IN
         IF \E i \in DOMAIN sched : RecordKey(sched[i]) = RecordKey(g)
         THEN Unstored(sched, Tail(games))
         ELSE <<g>> \o Unstored(Append(sched, g), Tail(games))

\* C13: over any sequence of ensure_month_cached_async calls no row of
\* schedules is deleted or changed in any field, and the insert_games of
\* an ensure leaves the rows stored before followed by the collected
\* records whose key was not stored: a collected record whose key is
\* already stored is ignored and the stored row kept as it was.
C13_AppendOnly ==
    [][/\ \A i \in DOMAIN schedules :
             i \in DOMAIN schedules' /\ schedules'[i] = schedules[i]
       /\ \A t \in Tasks :
             (etask[t].pc = "scraping" /\ etask'[t].pc = "stamping")
             => schedules' = schedules \o Unstored(schedules, etask'[t].games)]_vars

\* -------------------------------- realtime fetch cache: further claims

\* C14: for every reference, with or without a section parameter, a
\* roster fetch never returns a payload stored by a summary fetch and a
\* summary fetch never returns one stored by a roster fetch: the payload of
\* every returned result is of the kind of the call.
C14_CacheIsolationByKind ==
    \A t \in Tasks :
        (task[t].pc = "done" /\ task[t].result[1].data # None)
        => task[t].result[1].data[1].kind = task[t].kind[1]

\* The attempt of t fails in this step and its wait begins.
WaitBegins(t) == task[t].pc = "attempt" /\ task'[t].pc = "backoff"

\* A call never has more than 3 page loads, and its success ends it.
AtMostThreeAttempts ==
    \A t \in Tasks :
        /\ task'[t].ndisp <= Attempts
        /\ (task[t].pc = "attempt" /\ task'[t].pc \notin {"attempt", "backoff", "raised"})
           => task'[t].pc = "done" /\ task'[t].ndisp = task[t].ndisp

\* C15: a fetch call that misses the cache invokes the fetcher at
\* most 3 times and stops at the first success; a wait happens only
\* between two consecutive attempts, 0.5 s before attempt 2 and 1 s before
\* attempt 3.
C15_RetryBackoff ==
    [][/\ AtMostThreeAttempts
       /\ \A t \in Tasks :
             WaitBegins(t)
             => /\ task'[t].i < Attempts
                /\ task'[t].wake - mono = InitialBackoff * 2 ^ task[t].i]_vars

\* ------------------------------------------------- query facade: claims

\* The places of the records of games that have the team as away or home.
PlacesOfTeam(games, name) ==
    { i \in DOMAIN games : name \in {games[i].away, games[i].home} }

\* The places of the records of games whose identifier is id.
PlacesOfId(games, id) ==
    { i \in DOMAIN games : _extract_game_id(games[i].gamecenter_url) = id }

\* C16: for any list of a date's records in which a team is a participant
\* of more than one record, _select_game by that team alone returns no
\* match; _select_game by the identifier that exactly one record of the
\* list has returns that record.
C16_SelectionAmbiguity ==
    sel.pc = "done"
    => /\ (/\ sel.team # None
           /\ ~Truthy(sel.game_id)
           /\ Cardinality(PlacesOfTeam(sel.games, sel.team[1])) > 1)
          => sel.result = None
       /\ \A i \in DOMAIN sel.games :
             (/\ Truthy(sel.game_id)
              /\ PlacesOfId(sel.games, sel.game_id) = {i})
             => sel.result = Some(sel.games[i])

\* Selecting by LG alone in a list with two games of LG gave no match.
C16_Witness ==
    /\ sel.pc = "done"
    /\ sel.team = Some("LG")
    /\ sel.game_id = None
    /\ Cardinality(PlacesOfTeam(sel.games, "LG")) = 2
    /\ sel.result = None

\* C17: in _select_game, when an identifier is given (a non-empty text) the
\* result is the first record whose identifier matches, or no match when
\* none does, whatever the team argument; when only a team is given and
\* exactly one record has it as away or home that record is the result,
\* and zero such records give no match; when neither is given the result
\* is the first record of the list, or none for the empty list.
C17_SelectionPrecedence ==
    sel.pc = "done"
    => LET ids == PlacesOfId(sel.games, sel.game_id)
           teams == IF sel.team = None THEN {}
                    ELSE PlacesOfTeam(sel.games, Strip(sel.team[1]))
       IN /\ (Truthy(sel.game_id) /\ ids # {})
             => \E i \in ids : (\A j \in ids : i <= j) /\ sel.result = Some(sel.games[i])
          /\ (Truthy(sel.game_id) /\ ids = {}) => sel.result = None
          /\ (~Truthy(sel.game_id) /\ Truthy(sel.team))
             => /\ \A i \in DOMAIN sel.games : teams = {i} => sel.result = Some(sel.games[i])
                /\ teams = {} => sel.result = None
          /\ (~Truthy(sel.game_id) /\ ~Truthy(sel.team))
             => sel.result = IF sel.games = <<>> THEN None ELSE Some(sel.games[1])

\* An identifier that two records carry selected the first of them, a
\* game in which the team of the query does not play.
C17_Witness ==
    /\ sel.pc = "done"
    /\ sel.game_id = Some("G1")
    /\ Cardinality(PlacesOfId(sel.games, Some("G1"))) = 2
    /\ sel.team = Some("KIA")
    /\ sel.result # None
    /\ "KIA" \notin {sel.result[1].away, sel.result[1].home}

\* C18: for every query and every outcome of the collaborators (no
\* matching event, matched event without reference, failed fetches,
\* collector failure) build_realtime_payload_playwright never raises and
\* returns a document that carries a staleness flag, an error list, a
\* facts block and a derived_metrics block with its run_diff.
C18_WellFormedAlways ==
    \A t \in Tasks :
        /\ ftask[t].pc # "raised"
        /\ ftask[t].pc = "done"
           => /\ {"stale", "errors", "facts", "derived_metrics"} \subseteq DOMAIN ftask[t].response[1]
              /\ "run_diff" \in DOMAIN ftask[t].response[1].derived_metrics

\* The call of t selected a record that carries no reference.
NoReference(t) == ftask[t].game # None /\ ftask[t].game[1].gamecenter_url = None

\* C19: when the selected record carries no detail-page reference the
\* facade returns its no-data response without a fetch of either kind: no
\* page load is dispatched and _CACHE and _LAST_CALL are left unchanged.
C19_NoReferenceNoFetch ==
    [][\A t \in Tasks :
        (ftask[t].pc = "schedule" /\ ftask'[t].pc \notin {"schedule", "raised"} /\ NoReference(t)')
        => /\ ftask'[t].pc = "done"
           /\ ftask'[t].response[1].errors = << <<"no_matching_game_or_url">> >>
           /\ ftask'[t].response[1].stale
           /\ ftask'[t].response[1].facts = <<>>
           /\ _CACHE' = _CACHE
           /\ _LAST_CALL' = _LAST_CALL
           /\ lastDispatch' = lastDispatch
           /\ task' = task]_vars

\* A call that selected the game without game-center link has returned.
C19_Witness ==
    \E t \in Tasks :
        /\ ftask[t].pc = "done"
        /\ NoReference(t)
        /\ ftask[t].game[1].away = "KIA"
        /\ ftask[t].response[1].stale
        /\ lastDispatch = <<>>

\* How often the warning of the label is in the error list.
Warnings(errors, label) ==
    Cardinality({ i \in DOMAIN errors : errors[i] = <<label, "empty">> })

C21_StalenessAggregation ==
    \A t \in Tasks :
        (ftask[t].pc = "done" /\ ftask[t].review # None)
        => LET r == ftask[t].response[1]
               review == ftask[t].review[1]
               lineup == task[t].result[1]
           IN /\ r.stale = (review.stale \/ lineup.stale)
              /\ r.facts.stale.review = review.stale
              /\ r.facts.stale.lineup = lineup.stale

\* A response whose summary fetch succeeded and whose roster fetch failed.
C21_Witness ==
    \E t \in Tasks :
        /\ ftask[t].pc = "done"
        /\ ftask[t].review # None
        /\ ~ftask[t].review[1].stale
        /\ task[t].result[1].stale
        /\ ftask[t].response[1].stale
        /\ ftask[t].response[1].facts.stale = [review |-> FALSE, lineup |-> TRUE]

\* The call of t returns its list in this step.
GetReturns(t) == got'[t].pc = "done" /\ got'[t] # got[t]

\* d comes before e in (time, away, home), NULL times first.
ThreeColumnsLess(d, e) ==
    IF d.time # e.time THEN NullsFirstLess(d.time, e.time)
    ELSE IF d.away # e.away THEN TextLess(d.away, e.away)
    ELSE d.home # e.home /\ TextLess(d.home, e.home)

\* The times of the records of a list.
Times(list) == [k \in DOMAIN list |-> list[k].time]

\* C22: get_schedule_async returns exactly the stored records whose date is
\* the queried date, each as often as it is stored, in ascending order of
\* (time, away, home) with records without time first; records stored at
\* the times null, "18:30", "14:00" come back as null, "14:00", "18:30".
C22_Ordering ==
    [][\A t \in Tasks :
        GetReturns(t)
        => LET out == got'[t].out
               date == got'[t].date[1]
               stored == SelectSeq(schedules', LAMBDA r : r.game_date = date)
           IN /\ Len(out) = Len(stored)
              /\ \A k \in DOMAIN stored :
                    Cardinality({ i \in DOMAIN out : out[i] = ScheduleDict(stored[k]) })
                    = Cardinality({ i \in DOMAIN stored : ScheduleDict(stored[i]) = ScheduleDict(stored[k]) })
              /\ \A k \in 1..(Len(out) - 1) : ~ThreeColumnsLess(out[k + 1], out[k])
              /\ Times(stored) = <<None, Some("18:30"), Some("14:00")>>
                 => Times(out) = <<None, Some("14:00"), Some("18:30")>>]_vars

\* A call returned the three records of a date that were stored at the
\* times null, "18:30", "14:00".
C22_Witness ==
    \E t \in Tasks :
        /\ got[t].pc = "done"
        /\ Times(SelectSeq(schedules, LAMBDA r : r.game_date = got[t].date[1]))
           = <<None, Some("18:30"), Some("14:00")>>
        /\ Times(got[t].out) = <<None, Some("14:00"), Some("18:30")>>

\* A numeric token is a cell with a decimal digit; its value is the number
\* that its decimal digits spell.
IsToken(cell) == \E k \in DOMAIN cell : IsDecimal(cell[k])

TokenValue(cell) == ToInt(SelectSeq(cell, IsDecimal))

\* The value of the last numeric token of the row, if it has one.
LastToken(row) ==
    LET tokens == SelectSeq(row, IsToken) IN
    IF tokens = <<>> THEN None ELSE Some(TokenValue(tokens[Len(tokens)]))

\* C23: _derive_metrics returns run_diff = (last numeric token of row 0)
\* minus (last numeric token of row 1) of the linescore table, and run_diff
\* = null when the table has fewer than two rows or one of its first two
\* rows has no numeric token; the rows 1 0 2 3 and 0 1 1 2 give 1.
C23_DerivedMetricsValue ==
    dm.pc # "idle"
    => /\ dm.pc = "done"
       /\ dm.result[1].run_diff =
             IF Len(dm.linescore) < 2 THEN None
             ELSE IF LastToken(dm.linescore[1]) = None \/ LastToken(dm.linescore[2]) = None
             THEN None
             ELSE Some(LastToken(dm.linescore[1])[1] - LastToken(dm.linescore[2])[1])

\* C24: for every linescore table (no rows, rows without cells, cells that
\* are empty or no number, cells that mix digits with other characters)
\* _derive_metrics returns a dict with run_diff and never raises.
C24_DerivedMetricsTotal ==
    /\ dm.pc # "raised"
    /\ dm.pc = "done" => "run_diff" \in DOMAIN dm.result[1]

\* The steps of a call: the rate-limit wait begins only when the call
\* starts, and the call has at most 3 page loads and 3 backoff waits.
BoundedSteps ==
    \A t \in Tasks :
        /\ (task'[t].pc = "rate_limit" /\ task[t].pc # "rate_limit") => Starts(t)
        /\ task'[t].ndisp <= Attempts
        /\ task'[t].i <= Attempts
        /\ (task[t].pc = "backoff" /\ task'[t].pc # "backoff")
           => task'[t].pc = (IF task[t].i < Attempts THEN "attempt" ELSE "done")

\* C25: every fetch call terminates: with a fetcher that answers each
\* attempt, a call in flight returns, after at most one rate-limit wait, 3
\* page loads and the backoff waits that follow the failed ones.
C25_BoundedFetch ==
    /\ \A t \in Tasks : InFlight(t) ~> task[t].pc = "done"
    /\ [][BoundedSteps]_vars

\* A call has returned after a rate-limit wait and 3 failed page loads.
C25_Witness ==
    \E t \in Tasks :
        /\ task[t].pc = "done"
        /\ task[t].ndisp = Attempts
        /\ task[t].i = Attempts
        /\ lastDispatch[task[t].kind[1]].call = task[t].call
        /\ \E u \in Tasks : u # t /\ task[u].kind = task[t].kind /\ task[u].call < task[t].call

\* The running attempt of t succeeds in this step.
Succeeds(t) ==
    /\ task[t].pc = "attempt"
    /\ task'[t].pc = "done"
    /\ ~task'[t].result[1].stale

\* The call of t returns in this step without a successful attempt: it is
\* served from a fresh entry or its attempts have all failed.
ReturnsWithoutSuccess(t) ==
    /\ task'[t].pc = "done"
    /\ task'[t] # task[t]
    /\ ~Succeeds(t)

\* C26: a cache entry is created or overwritten exactly when a fetcher
\* attempt succeeds, and then it is the entry of the call's key, with the
\* payload of that attempt and the instant of that moment; a call whose
\* attempts all fail and a call served from a fresh entry leave every entry
\* as it was.
C26_CacheWriteCondition ==
    [][/\ (_CACHE' # _CACHE) <=> (\E t \in Tasks : Succeeds(t))
       /\ \A t \in Tasks :
             Succeeds(t)
             => _CACHE' = Put(_CACHE, task[t].key[1],
                              [t |-> mono', data |-> task'[t].result[1].data[1]])
       /\ \A t \in Tasks :
             ReturnsWithoutSuccess(t)
             => /\ _CACHE' = _CACHE
                /\ task'[t].ndisp = 0 \/ task'[t].i = Attempts]_vars

\* The third call failed in all its attempts, after the TTL, and the entry
\* of its key is still the one that the second call stored.
C26_Witness ==
    \E t \in Tasks :
        /\ Exhausted(t)
        /\ task[t].call = 3
        /\ task[t].key[1] \in DOMAIN _CACHE
        /\ _CACHE[task[t].key[1]].data.v = 2
        /\ mono - _CACHE[task[t].key[1]].t >= TTL

\* C27: whenever no fetch of a kind is in progress, _LAST_CALL of the kind
\* holds the instant of the most recent page load dispatched for the kind,
\* the page loads of retries included.
C27_LastCallTracksDispatch ==
    \A k \in Kinds :
        (/\ k \in DOMAIN lastDispatch
         /\ \A t \in Tasks : ~(InFlight(t) /\ task[t].kind = Some(k)))
        => /\ k \in DOMAIN _LAST_CALL
           /\ _LAST_CALL[k] = lastDispatch[k].at

\* The calls of t and u missed the same key and were in flight together:
\* both loaded the page themselves and both succeeded.
BothFetched(t, u) ==
    /\ t # u
    /\ task[t].pc = "done" /\ task[u].pc = "done"
    /\ task[t].key = task[u].key
    /\ task[t].ndisp > 0 /\ task[u].ndisp > 0
    /\ ~task[t].result[1].stale /\ ~task[u].result[1].stale

\* C28: calls for one key that are in flight together and miss the cache
\* each load the page themselves (a call that misses never waits for the
\* call of another caller), and in every reachable state the cache entry of
\* a key is the whole payload of one successful page load made for that
\* key, the last one that finished.
C28_ConcurrentMisses ==
    /\ [](\A key \in DOMAIN _CACHE :
             /\ _CACHE[key].data.url = key
             /\ _CACHE[key].data.tables = site[_CACHE[key].data.kind]
             /\ LastWrote(key) = Some(_CACHE[key].data))
    /\ [][\A t \in Tasks :
             (Starts(t) /\ ~CacheHit(_CACHE, task'[t].key[1], mono))
             => /\ task'[t].pc \in {"rate_limit", "attempt"}
                /\ (\E u \in Tasks : InFlight(u) /\ task[u].kind = task'[t].kind)
                   => task'[t].pc = "rate_limit" \/ task'[t].ndisp = 1]_vars

\* Two calls for one key both loaded the page, and the entry is the payload
\* of the call that started first and finished last.
C28_Witness ==
    \E t \in Tasks, u \in Tasks :
        /\ BothFetched(t, u)
        /\ task[t].call < task[u].call
        /\ _CACHE[task[t].key[1]].data.v = task[t].call
        /\ task[u].result[1].data[1].v = task[u].call

\* The error list has an entry of the kind.
HasEntry(errors, label) == \E i \in DOMAIN errors : errors[i][1] = label /\ Len(errors[i]) = 2 /\ errors[i][2] # "empty"

\* The outcome of a fetch whose attempts all failed.
FailedFetch(result) == result.stale /\ result.error # None

\* C29: whenever the fetch of a kind exhausted all its attempts, the error
\* list of the response has an entry for the kind ("review: ..." or
\* "lineup: ..."), with or without a cached payload to fall back on and for
\* every text of the fetcher's exception, the empty text included.
C29_FailedFetchVisible ==
    \A t \in Tasks :
        (ftask[t].pc = "done" /\ ftask[t].review # None)
        => /\ FailedFetch(ftask[t].review[1])
              => HasEntry(ftask[t].response[1].errors, "review")
           /\ FailedFetch(task[t].result[1])
              => HasEntry(ftask[t].response[1].errors, "lineup")

\* The call of t returns in this step.
Returns(t) == task'[t].pc = "done" /\ task'[t] # task[t]

\* C30: no cache entry is ever removed, and once a page load for a key has
\* succeeded, every fetch call for that key that returns afterwards returns
\* a payload, whatever the fetcher does and however much time has passed.
C30_NoEviction ==
    [][/\ \A key \in DOMAIN _CACHE : key \in DOMAIN _CACHE'
       /\ \A t \in Tasks :
             (Returns(t) /\ LastWrote(task'[t].key[1]) # None)
             => task'[t].result[1].data # None]_vars

\* A call whose page loads all timed out, more than the TTL after the
\* success of an earlier call for its key, returned that call's payload.
C30_Witness ==
    \E t \in Tasks :
        /\ Exhausted(t)
        /\ task[t].exc = Some("Timeout 5000ms exceeded")
        /\ task[t].result[1].data # None
        /\ task[t].result[1].data[1].v < task[t].call
        /\ mono - _CACHE[task[t].key[1]].t > TTL

\* C31: every store connection that ensure_month_cached_async or
\* get_schedule_async opened is closed by the time the call returns or
\* raises: when the bucket was fresh, when the collection succeeded and
\* when it failed.
C31_ConnectionsReleased ==
    \A t \in Tasks :
        /\ etask[t].pc \in {"returned", "raised"} => conn[t] = "closed"
        /\ got[t].pc = "done" => got[t].conn = "closed"

====
